---- MODULE Spec2Model ----
(***************************************************************************)
(* Model of packages/vite/src/node/plugin.ts: resolveIsolatedPlugins and   *)
(* asyncFlattenIsolatedPlugin (the per-environment plugin resolution).     *)
(***************************************************************************)
EXTENDS Integers, Sequences, FiniteSets, TLC

(* ---------------- bounds ---------------- *)
MaxLen == 2
NumRuns == 2
MaxPass == 3
Fuel == 6
MaxCalls == MaxLen + 2

(* ---------------- values (PluginOption shapes) ---------------- *)
Plugin(n, e) == [k |-> "plugin", n |-> n, enforce |-> e, items |-> <<>>]
Fn(n) == [k |-> "fn", n |-> n, enforce |-> "", items |-> <<>>]
Pr(n) == [k |-> "promise", n |-> n, enforce |-> "", items |-> <<>>]
Falsy == [k |-> "falsy", n |-> "", enforce |-> "", items |-> <<>>]
Str == [k |-> "str", n |-> "s", enforce |-> "", items |-> <<>>]
Num == [k |-> "num", n |-> "42", enforce |-> "", items |-> <<>>]
Arr(xs) == [k |-> "arr", n |-> "", enforce |-> "", items |-> xs]

A == Plugin("A", "")
B == Plugin("B", "")
C == Plugin("C", "post")
D == Plugin("D", "")
D0 == Plugin("D0", "")
G == Plugin("G", "pre")
X == Plugin("X", "pre")
Y == Plugin("Y", "")

FnNames == {"E", "F", "K", "H", "HH", "NA", "KP", "N", "T", "R", "L", "S", "M", "Q", "W", "FA", "RR", "TT"}

(* the behaviour of each constructor when called with the environment:   *)
(* a synchronous throw, or a returned IsolatedPluginOption                *)
Ret(f) ==
  CASE f = "E" -> [tag |-> "ret", val |-> Pr("pE")]
    [] f = "F" -> [tag |-> "ret", val |-> Arr(<<G>>)]
    [] f = "K" -> [tag |-> "ret", val |-> Arr(<<A, Falsy, Arr(<<B, Falsy>>), C>>)]
    [] f = "H" -> [tag |-> "ret", val |-> Fn("F")]
    [] f = "HH" -> [tag |-> "ret", val |-> Fn("H")]
    [] f = "NA" -> [tag |-> "ret", val |-> Arr(<<Arr(<<Fn("F")>>)>>)]
    [] f = "KP" -> [tag |-> "ret", val |-> Arr(<<Pr("pF")>>)]
    [] f = "N" -> [tag |-> "ret", val |-> Falsy]
    [] f = "T" -> [tag |-> "throw", val |-> Falsy]
    [] f = "R" -> [tag |-> "ret", val |-> Pr("pRej")]
    [] f = "L" -> [tag |-> "ret", val |-> Fn("L")]
    [] f = "S" -> [tag |-> "ret", val |-> Arr(<<Str, Fn("F")>>)]
    [] f = "M" -> [tag |-> "ret", val |-> Num]
    [] f = "Q" -> [tag |-> "ret", val |-> Arr(<<Arr(<<Pr("pB")>>), Fn("H"), Pr("pC"), Fn("FA")>>)]
    [] f = "W" -> [tag |-> "ret", val |-> Arr(<<Pr("pA"), Pr("pB")>>)]
    [] f = "FA" -> [tag |-> "ret", val |-> Pr("pD")]
    [] f = "RR" -> [tag |-> "ret", val |-> Arr(<<Pr("pC"), Pr("pRej")>>)]
    [] f = "TT" -> [tag |-> "ret", val |-> Arr(<<Fn("F"), Fn("T"), Fn("F")>>)]

(* how each promise settles *)
Outcome(p) ==
  CASE p = "pE" -> [tag |-> "resolve", val |-> Arr(<<D, Fn("F")>>)]
    [] p = "pF" -> [tag |-> "resolve", val |-> Fn("F")]
    [] p = "pA" -> [tag |-> "resolve", val |-> A]
    [] p = "pB" -> [tag |-> "resolve", val |-> B]
    [] p = "pC" -> [tag |-> "resolve", val |-> C]
    [] p = "pD" -> [tag |-> "resolve", val |-> Arr(<<D>>)]
    [] p = "pRej" -> [tag |-> "reject", val |-> Falsy]

(* environment.config.plugins entries: Plugin | IsolatedPluginConstructor *)
TopEntries ==
  {D0, X, Y, C} \cup
  {Fn(f) : f \in {"E", "K", "HH", "NA", "KP", "N", "T", "R", "L", "S", "M", "Q", "W", "RR", "TT"}}

Configs == UNION {[1..n -> TopEntries] : n \in 0..MaxLen}

(* ---------------- pure helpers ---------------- *)
Range(s) == {s[x] : x \in DOMAIN s}

Min(a, b) == IF a < b THEN a ELSE b

(* Array.prototype.flat(Infinity) *)
RECURSIVE FlatInfinity(_)
FlatInfinity(xs) ==
  IF xs = <<>> THEN <<>>
  ELSE LET h == Head(xs)
       IN (IF h.k = "arr" THEN FlatInfinity(h.items) ELSE <<h>>) \o FlatInfinity(Tail(xs))

(* Boolean(v): false | null | undefined are the falsy shapes *)
Truthy(v) == v.k # "falsy"

(* .filter(Boolean) *)
FilterBoolean(xs) == SelectSeq(xs, Truthy)

(* v?.then || v?.split : promises have then, strings have split *)
ThenOrSplit(v) == v.k = "promise" \/ v.k = "str"

(* the do/while condition: plugins.some((v) => v?.then || v?.split) *)
LoopCond(xs) == \E x \in DOMAIN xs : ThenOrSplit(xs[x])

(* if (!Array.isArray(plugins)) plugins = [plugins] *)
Wrap(v) == IF v.k = "arr" THEN v.items ELSE <<v>>

NormalizerArgPlugin(plugin, isolatedPlugin) == plugin

(* the argument handed to asyncFlattenIsolatedPlugin *)
NormalizerArg(plugin, isolatedPlugin) == isolatedPlugin

PushAllFront(resolved, flat) == flat \o resolved

(* resolvedPlugins.push(...flatPlugins) *)
PushAll(resolved, flat) == resolved \o flat

AwaitValueSwallow(v) ==
  IF v.k = "promise"
  THEN [ok |-> TRUE,
        val |-> IF Outcome(v.n).tag = "resolve" THEN Outcome(v.n).val ELSE Falsy]
  ELSE [ok |-> TRUE, val |-> v]

(* awaiting a value: a promise yields its outcome, anything else itself *)
AwaitValue(v) ==
  IF v.k = "promise"
  THEN [ok |-> Outcome(v.n).tag = "resolve", val |-> Outcome(v.n).val]
  ELSE [ok |-> TRUE, val |-> v]

(* the value is a promise that rejects *)
Rejects(v) == v.k = "promise" /\ Outcome(v.n).tag = "reject"

SubstituteCompletion(values, idx, v) ==
  LET m == CHOOSE x \in DOMAIN values :
             /\ values[x].k = "promise"
             /\ \A y \in DOMAIN values : values[y].k = "promise" => x <= y
  IN [values EXCEPT ![m] = v, ![idx] = IF idx = m THEN v ELSE values[m]]

(* Promise.all keeps each result at the index of its promise *)
Substitute(values, idx, v) == [values EXCEPT ![idx] = v]

(* indices of the still pending promises handed to Promise.all *)
PendingOf(values) == {x \in DOMAIN values : values[x].k = "promise"}

AllSettledRace(values) == values = <<>> \/ PendingOf(values) # DOMAIN values

(* Promise.all fulfils when no element is pending *)
AllSettled(values) == PendingOf(values) = {}

(* TierOrderer: enforce 'pre', then untagged, then enforce 'post', stable *)
IsPre(v) == v.enforce = "pre"
IsNormal(v) == v.enforce \notin {"pre", "post"}
IsPost(v) == v.enforce = "post"
SortTiersNone(xs) == xs
SortTiers(xs) == SelectSeq(xs, IsPre) \o SelectSeq(xs, IsNormal) \o SelectSeq(xs, IsPost)

NoList == [set |-> FALSE, list |-> <<>>]
SomeList(xs) == [set |-> TRUE, list |-> xs]

(* ---------------- state ---------------- *)
VARIABLES
  config,           \* environment.config.plugins
  run,              \* which resolution of the environment is running
  pc,               \* position inside resolveIsolatedPlugins / the normalizer
  i,                \* index of the for..of loop over config
  resolvedPlugins,  \* the list being built
  isolatedPlugin,   \* the value returned by plugin(environment), being awaited
  normIn,           \* the plugins argument of asyncFlattenIsolatedPlugin
  plugins,          \* the normalizer's current sequence
  mapped,           \* the array handed to Promise.all, results substituted in place
  j,                \* position of plugins.map
  flatPlugins,      \* the normalizer's return value
  returned,         \* per run, the list resolveIsolatedPlugins returned
  envPlugins,       \* the environment's resolved plugin list
  pass,             \* number of the normalizer pass (history)
  invoked,          \* indices invoked by the map of this pass (history)
  calls,            \* per constructor, invocations in this run (history)
  threw             \* a constructor threw or a promise rejected in this run (history)

vars == <<config, run, pc, i, resolvedPlugins, isolatedPlugin, normIn, plugins,
          mapped, j, flatPlugins, returned, envPlugins, pass, invoked, calls, threw>>

locals == <<isolatedPlugin, normIn, plugins, mapped, j, flatPlugins, pass, invoked>>

Init ==
  /\ config \in Configs
  /\ run = 1
  /\ pc = "for"
  /\ i = 1
  /\ resolvedPlugins = <<>>
  /\ isolatedPlugin = Falsy
  /\ normIn = Falsy
  /\ plugins = <<>>
  /\ mapped = <<>>
  /\ j = 1
  /\ flatPlugins = <<>>
  /\ returned = [r \in 1..NumRuns |-> NoList]
  /\ envPlugins = NoList
  /\ pass = 0
  /\ invoked = <<>>
  /\ calls = [f \in FnNames |-> 0]
  /\ threw = FALSE

Called(f) == [calls EXCEPT ![f] = Min(@ + 1, MaxCalls)]

(* ---------------- resolveIsolatedPlugins ---------------- *)
\* else branch: resolvedPlugins.push(plugin)
PushPlain ==
  /\ pc = "for" /\ i <= Len(config) /\ config[i].k # "fn"
  /\ resolvedPlugins' = Append(resolvedPlugins, config[i])
  /\ i' = i + 1
  /\ UNCHANGED <<config, run, pc, locals, returned, envPlugins, calls, threw>>

\* plugin(environment) returns
InvokeTop ==
  /\ pc = "for" /\ i <= Len(config) /\ config[i].k = "fn"
  /\ Ret(config[i].n).tag = "ret"
  /\ calls' = Called(config[i].n)
  /\ isolatedPlugin' = Ret(config[i].n).val
  /\ pc' = "await"
  /\ UNCHANGED <<config, run, i, resolvedPlugins, normIn, plugins, mapped, j,
                 flatPlugins, returned, envPlugins, pass, invoked, threw>>

\* plugin(environment) throws: the async function rejects
InvokeTopThrow ==
  /\ pc = "for" /\ i <= Len(config) /\ config[i].k = "fn"
  /\ Ret(config[i].n).tag = "throw"
  /\ calls' = Called(config[i].n)
  /\ threw' = TRUE
  /\ pc' = "failed"
  /\ UNCHANGED <<config, run, i, resolvedPlugins, locals, returned, envPlugins>>

\* await of a rejected promise
AwaitTopReject ==
  /\ pc = "await" /\ ~AwaitValue(isolatedPlugin).ok
  /\ threw' = (threw \/ Rejects(isolatedPlugin))
  /\ pc' = "failed"
  /\ UNCHANGED <<config, run, i, resolvedPlugins, locals, returned, envPlugins, calls>>

\* if (isolatedPlugin) is false: nothing is contributed
AwaitTopFalsy ==
  /\ pc = "await" /\ AwaitValue(isolatedPlugin).ok
  /\ ~Truthy(AwaitValue(isolatedPlugin).val)
  /\ threw' = (threw \/ Rejects(isolatedPlugin))
  /\ isolatedPlugin' = AwaitValue(isolatedPlugin).val
  /\ i' = i + 1
  /\ pc' = "for"
  /\ UNCHANGED <<config, run, resolvedPlugins, normIn, plugins, mapped, j, flatPlugins,
                 returned, envPlugins, pass, invoked, calls>>

\* asyncFlattenIsolatedPlugin(environment, isolatedPlugin) is entered
EnterNormalizer ==
  /\ pc = "await" /\ AwaitValue(isolatedPlugin).ok
  /\ Truthy(AwaitValue(isolatedPlugin).val)
  /\ threw' = (threw \/ Rejects(isolatedPlugin))
  /\ isolatedPlugin' = AwaitValue(isolatedPlugin).val
  /\ normIn' = NormalizerArg(config[i], isolatedPlugin')
  /\ plugins' = Wrap(normIn')
  /\ mapped' = <<>>
  /\ j' = 1
  /\ pass' = 1
  /\ invoked' = <<>>
  /\ pc' = "map"
  /\ UNCHANGED <<config, run, i, resolvedPlugins, flatPlugins, returned, envPlugins, calls>>

(* ---------------- asyncFlattenIsolatedPlugin ---------------- *)
\* plugins.map: typeof p === 'function' ? p(environment) : p, p a function that returns
MapInvoke ==
  /\ pc = "map" /\ j <= Len(plugins) /\ plugins[j].k = "fn"
  /\ Ret(plugins[j].n).tag = "ret"
  /\ calls' = Called(plugins[j].n)
  /\ invoked' = Append(invoked, j)
  /\ mapped' = Append(mapped, Ret(plugins[j].n).val)
  /\ j' = j + 1
  /\ UNCHANGED <<config, run, pc, i, resolvedPlugins, isolatedPlugin, normIn, plugins,
                 flatPlugins, returned, envPlugins, pass, threw>>

\* p(environment) throws inside the map callback
MapThrow ==
  /\ pc = "map" /\ j <= Len(plugins) /\ plugins[j].k = "fn"
  /\ Ret(plugins[j].n).tag = "throw"
  /\ calls' = Called(plugins[j].n)
  /\ invoked' = Append(invoked, j)
  /\ threw' = TRUE
  /\ pc' = "failed"
  /\ UNCHANGED <<config, run, i, resolvedPlugins, isolatedPlugin, normIn, plugins,
                 mapped, j, flatPlugins, returned, envPlugins, pass>>

\* a non-function element is mapped to itself
MapKeep ==
  /\ pc = "map" /\ j <= Len(plugins) /\ plugins[j].k # "fn"
  /\ mapped' = Append(mapped, plugins[j])
  /\ j' = j + 1
  /\ UNCHANGED <<config, run, pc, i, resolvedPlugins, isolatedPlugin, normIn, plugins,
                 flatPlugins, returned, envPlugins, pass, invoked, calls, threw>>

\* the map is over: await Promise.all(...)
MapDone ==
  /\ pc = "map" /\ j > Len(plugins)
  /\ pc' = "all"
  /\ UNCHANGED <<config, run, i, resolvedPlugins, locals, returned, envPlugins, calls, threw>>

\* one of the pending promises fulfils; its value takes the promise's index
SettleResolve(x) ==
  /\ pc = "all" /\ x \in PendingOf(mapped)
  /\ AwaitValue(mapped[x]).ok
  /\ threw' = (threw \/ Rejects(mapped[x]))
  /\ mapped' = Substitute(mapped, x, AwaitValue(mapped[x]).val)
  /\ UNCHANGED <<config, run, pc, i, resolvedPlugins, isolatedPlugin, normIn, plugins,
                 j, flatPlugins, returned, envPlugins, pass, invoked, calls>>

\* one of the pending promises rejects: Promise.all rejects at once
SettleReject(x) ==
  /\ pc = "all" /\ x \in PendingOf(mapped)
  /\ ~AwaitValue(mapped[x]).ok
  /\ threw' = (threw \/ Rejects(mapped[x]))
  /\ pc' = "failed"
  /\ UNCHANGED <<config, run, i, resolvedPlugins, locals, returned, envPlugins, calls>>

\* .flat(Infinity).filter(Boolean) of the results of the pass
PassResult(values) == FilterBoolean(FlatInfinity(values))

\* while (plugins.some(...)) is true: another pass
LoopAgain ==
  /\ pc = "all" /\ AllSettled(mapped)
  /\ LoopCond(PassResult(mapped))
  /\ plugins' = PassResult(mapped)
  /\ mapped' = <<>>
  /\ j' = 1
  /\ pass' = Min(pass + 1, MaxPass)
  /\ invoked' = <<>>
  /\ pc' = "map"
  /\ UNCHANGED <<config, run, i, resolvedPlugins, isolatedPlugin, normIn, flatPlugins,
                 returned, envPlugins, calls, threw>>

\* the loop condition is false: return plugins
NormReturn ==
  /\ pc = "all" /\ AllSettled(mapped)
  /\ ~LoopCond(PassResult(mapped))
  /\ plugins' = PassResult(mapped)
  /\ flatPlugins' = PassResult(mapped)
  /\ invoked' = <<>>
  /\ pc' = "push"
  /\ UNCHANGED <<config, run, i, resolvedPlugins, isolatedPlugin, normIn, mapped, j,
                 returned, envPlugins, pass, calls, threw>>

\* resolvedPlugins.push(...flatPlugins), next entry
PushFlat ==
  /\ pc = "push"
  /\ resolvedPlugins' = PushAll(resolvedPlugins, flatPlugins)
  /\ i' = i + 1
  /\ pc' = "for"
  /\ UNCHANGED <<config, run, locals, returned, envPlugins, calls, threw>>

\* return resolvedPlugins
ReturnResolved ==
  /\ pc = "for" /\ i > Len(config)
  /\ returned' = [returned EXCEPT ![run] = SomeList(resolvedPlugins)]
  /\ pc' = "done"
  /\ UNCHANGED <<config, run, i, resolvedPlugins, locals, envPlugins, calls, threw>>

\* the returned sequence is tier-ordered into the environment's resolved list
SetEnvPlugins ==
  /\ pc = "done"
  /\ envPlugins' = SomeList(SortTiers(returned[run].list))
  /\ pc' = "set"
  /\ UNCHANGED <<config, run, i, resolvedPlugins, locals, returned, calls, threw>>

\* the same environment is resolved again with the unchanged config
ResolveAgain ==
  /\ pc \in {"set", "failed"} /\ run < NumRuns
  /\ run' = run + 1
  /\ pc' = "for"
  /\ i' = 1
  /\ resolvedPlugins' = <<>>
  /\ isolatedPlugin' = Falsy
  /\ normIn' = Falsy
  /\ plugins' = <<>>
  /\ mapped' = <<>>
  /\ j' = 1
  /\ flatPlugins' = <<>>
  /\ envPlugins' = NoList
  /\ pass' = 0
  /\ invoked' = <<>>
  /\ calls' = [f \in FnNames |-> 0]
  /\ threw' = FALSE
  /\ UNCHANGED <<config, returned>>

Next ==
  \/ PushPlain
  \/ InvokeTop
  \/ InvokeTopThrow
  \/ AwaitTopReject
  \/ AwaitTopFalsy
  \/ EnterNormalizer
  \/ MapInvoke
  \/ MapThrow
  \/ MapKeep
  \/ MapDone
  \/ \E x \in DOMAIN mapped : SettleResolve(x)
  \/ \E x \in DOMAIN mapped : SettleReject(x)
  \/ LoopAgain
  \/ NormReturn
  \/ PushFlat
  \/ ReturnResolved
  \/ SetEnvPlugins
  \/ ResolveAgain

Spec == Init /\ [][Next]_vars


(* ---------------- reference definitions used by the properties ---------------- *)
Malformed(v) == v.k \in {"str", "num"}

\* the tree below v is well typed, raises nothing and is finite
RECURSIVE WellFormed(_, _)
WellFormed(v, fuel) ==
  IF fuel = 0 THEN FALSE
  ELSE CASE v.k = "plugin" -> TRUE
         [] v.k = "falsy" -> TRUE
         [] v.k = "fn" -> Ret(v.n).tag = "ret" /\ WellFormed(Ret(v.n).val, fuel - 1)
         [] v.k = "promise" ->
              Outcome(v.n).tag = "resolve" /\ WellFormed(Outcome(v.n).val, fuel - 1)
         [] v.k = "arr" -> \A x \in DOMAIN v.items : WellFormed(v.items[x], fuel - 1)
         [] OTHER -> FALSE

\* depth-first, left-to-right sequence of the concrete plugins below v
RECURSIVE Traverse(_, _)
Traverse(v, fuel) ==
  IF fuel = 0 THEN <<>>
  ELSE CASE v.k = "plugin" -> <<v>>
         [] v.k = "fn" -> Traverse(Ret(v.n).val, fuel - 1)
         [] v.k = "promise" -> Traverse(Outcome(v.n).val, fuel - 1)
         [] v.k = "arr" ->
              LET RECURSIVE Each(_)
                  Each(xs) == IF xs = <<>> THEN <<>>
                              ELSE Traverse(Head(xs), fuel - 1) \o Each(Tail(xs))
              IN Each(v.items)
         [] OTHER -> <<>>

\* the normalizer as a function: pass after pass, every element resolved in place
RefSettled(v) ==
  LET r == IF v.k = "fn" THEN Ret(v.n).val ELSE v
  IN IF r.k = "promise" THEN Outcome(r.n).val ELSE r

RECURSIVE RefFlat(_)
RefFlat(xs) ==
  IF xs = <<>> THEN <<>>
  ELSE (IF Head(xs).k = "arr" THEN RefFlat(Head(xs).items)
        ELSE IF Head(xs).k = "falsy" THEN <<>> ELSE <<Head(xs)>>) \o RefFlat(Tail(xs))

RECURSIVE RefNormalize(_, _)
RefNormalize(xs, fuel) ==
  LET step == RefFlat([x \in DOMAIN xs |-> RefSettled(xs[x])])
  IN IF fuel = 0 \/ ~(\E x \in DOMAIN step : step[x].k \in {"promise", "str"})
     THEN step
     ELSE RefNormalize(step, fuel - 1)

RefContribution(entry) ==
  IF entry.k # "fn" THEN <<entry>>
  ELSE LET r == Ret(entry.n).val
           v == IF r.k = "promise" THEN Outcome(r.n).val ELSE r
       IN IF v.k = "falsy" THEN <<>>
          ELSE RefNormalize(IF v.k = "arr" THEN v.items ELSE <<v>>, Fuel)

RECURSIVE RefResolve(_)
RefResolve(cfg) ==
  IF cfg = <<>> THEN <<>> ELSE RefContribution(Head(cfg)) \o RefResolve(Tail(cfg))

Count(f, xs) == Cardinality({x \in DOMAIN xs : xs[x].k = "fn" /\ xs[x].n = f})

\* constructors that occur in no constructor result and no promise value
TopOnly == {"E", "K", "HH", "NA", "KP", "N", "R", "S", "M", "Q", "W", "RR", "TT"}

Rank(v) == IF IsPre(v) THEN 0 ELSE IF IsPost(v) THEN 2 ELSE 1

(* ---------------- properties ---------------- *)

\* C1: whenever the normalizer returns for a well-typed subtree (constructor
\* returning a constructor, constructor in a nested array, promise resolving to a
\* constructor included), every element of the returned sequence is a concrete
\* plugin: no function, promise, array or falsy value.
C1_OnlyConcretePlugins ==
  (pc = "push" /\ WellFormed(normIn, Fuel)) =>
     \A x \in DOMAIN flatPlugins : flatPlugins[x].k = "plugin"

\* C2: the normalizer's output is the depth-first, left-to-right traversal of the
\* concrete plugins of its input tree, for every completion order of the promises.
C2_DepthFirstOrder ==
  (pc = "push" /\ WellFormed(normIn, Fuel)) => flatPlugins = Traverse(normIn, Fuel)

\* C3: resolveIsolatedPlugins returns the concatenation, in declaration order, of
\* the entries' contributions (plain plugin: itself; falsy constructor result:
\* nothing; otherwise the normalized plugins); [D0, E] yields [D0, D, G].
C3_Concatenation ==
  pc = "done" =>
     /\ returned[run].list = RefResolve(config)
     /\ config = <<D0, Fn("E")>> => returned[run].list = <<D0, D, G>>

C3_Witness ==
  /\ pc = "done" /\ config = <<D0, Fn("E")>>
  /\ returned[run] = SomeList(<<D0, D, G>>)

\* C4: once a constructor has thrown or a promise has rejected, the resolution is
\* failed and no list is returned or set on the environment; a list is returned
\* only after every entry was resolved without failure.
C4_FailFast ==
  /\ threw => (pc = "failed" /\ ~returned[run].set /\ ~envPlugins.set)
  /\ returned[run].set => (i > Len(config) /\ ~threw)
  /\ envPlugins.set => returned[run].set

C4_Witness ==
  /\ pc = "failed" /\ threw /\ resolvedPlugins # <<>>
  /\ ~returned[run].set /\ ~envPlugins.set

C6_MalformedIsError ==
  (pc = "push" \/ (pc = "map" /\ pass >= 2)) =>
     \A x \in DOMAIN plugins : ~Malformed(plugins[x])

\* C7: in the environment's resolved list every enforce 'pre' plugin precedes
\* every untagged one, which precedes every enforce 'post' one; inside a tier the
\* order is the flatten order; [Y, X] with X 'pre' gives [X, Y].
C7_TierOrder ==
  envPlugins.set =>
     /\ \A x, y \in DOMAIN envPlugins.list :
           x < y => Rank(envPlugins.list[x]) <= Rank(envPlugins.list[y])
     /\ SelectSeq(envPlugins.list, IsPre) = SelectSeq(returned[run].list, IsPre)
     /\ SelectSeq(envPlugins.list, IsNormal) = SelectSeq(returned[run].list, IsNormal)
     /\ SelectSeq(envPlugins.list, IsPost) = SelectSeq(returned[run].list, IsPost)
     /\ config = <<Y, X>> => envPlugins.list = <<X, Y>>

C7_Witness ==
  /\ envPlugins.set /\ config = <<Y, X>> /\ envPlugins.list = <<X, Y>>

\* C8: two resolutions of the same environment with the same config return the
\* same ordered list, whatever the order in which the promises settled.
C8_Idempotent ==
  \A r1, r2 \in 1..NumRuns :
     (returned[r1].set /\ returned[r2].set) => returned[r1].list = returned[r2].list

C8_Witness ==
  /\ run = 2 /\ pc = "done" /\ config = <<Fn("W"), Fn("Q")>>
  /\ returned[1].set /\ returned[2] = returned[1] /\ Len(returned[2].list) = 6

\* C9: the loop stops exactly when no element is a function or promise-like, so
\* for a constructor that always returns a new function the normalizer never
\* returns.
C9_SelfProducingNeverReturns ==
  /\ pc = "push" => \A x \in DOMAIN flatPlugins : flatPlugins[x].k \notin {"fn", "promise"}
  /\ (normIn = Fn("L") /\ pc # "failed") => pc \in {"map", "all"}

\* C10: a pass invokes all its function elements before anything is awaited, and
\* the next pass starts only when every promise of the current pass has settled.
C10_BatchBarrier ==
  [][ /\ (pc = "map" /\ pc' = "all") =>
           \A x \in DOMAIN plugins : plugins[x].k = "fn" => x \in Range(invoked)
      /\ (pc = "all" /\ pc' = "map") => PendingOf(mapped) = {}
      /\ (pc = "all" /\ pc' = "push") => PendingOf(mapped) = {}
      /\ (pc = "all" /\ pc' = "all" /\ mapped' # mapped) =>
           /\ Len(mapped) = Len(plugins)
           /\ \A x \in DOMAIN plugins : plugins[x].k = "fn" => x \in Range(invoked)
    ]_vars

C10_Witness ==
  /\ pc = "map" /\ pass = 2 /\ invoked # <<>>
  /\ \E x \in DOMAIN plugins : x > j /\ plugins[x].k = "plugin"
====
